---- MODULE Spec2Model ----
(***************************************************************************)
(* Model of fastNLP/io/file_utils.py: the download cache                   *)
(* (cached_path / get_from_cache / match_file / split_filename_suffix /    *)
(* get_filepath).                                                          *)
(*                                                                         *)
(* Strings are sequences of one-character strings.  The file system is a   *)
(* tree of nodes; a path is a sequence of names.  The tree `fs` is the     *)
(* content of the cache root, `tmp` is the content of the temporary        *)
(* directory used by tempfile.mkstemp / tempfile.mkdtemp.                  *)
(***************************************************************************)
EXTENDS Integers, Sequences, FiniteSets, TLC

VARIABLES fs, tmp, pc, call, ret, ncalls, limit, cp, mf, sp

vars == <<fs, tmp, pc, call, ret, ncalls, limit, cp, mf, sp>>

(***************************************************************************)
(* Bounds                                                                  *)
(***************************************************************************)
\* number of cached_path / get_from_cache calls in one behaviour
MaxCalls == 2
\* number of calls in a behaviour that fetches URLs into the cache root only
MaxFetches == 3
\* largest number of chunks in a response body
MaxChunks == 2
\* largest number of entries of the directory handed to match_file
MaxEntries == 3

(***************************************************************************)
(* Strings                                                                 *)
(***************************************************************************)
Str0 == <<>>
DotZip == <<".", "z", "i", "p">>
DotTarGz == <<".", "t", "a", "r", ".", "g", "z">>
DotTxt == <<".", "t", "x", "t">>

\* str.endswith
EndsWith(s, t) ==
    /\ Len(s) >= Len(t)
    /\ SubSeq(s, Len(s) - Len(t) + 1, Len(s)) = t

\* index of the last occurrence of character c in s, 0 when there is none
LastIndexOf(s, c) ==
    IF \E i \in 1..Len(s) : s[i] = c
    THEN CHOOSE i \in 1..Len(s) : s[i] = c /\ \A j \in (i + 1)..Len(s) : s[j] # c
    ELSE 0

\* re.sub(r".+/", "", url): the greedy match runs from the start of the
\* string to its last "/", and needs at least one character before it
url_filename(url) ==
    LET k == LastIndexOf(url, "/")
    IN  IF k >= 2 THEN SubSeq(url, k + 1, Len(url)) ELSE url

\* os.path.basename
basename(p) == SubSeq(p, LastIndexOf(p, "/") + 1, Len(p))

\* os.path.splitext on a name without separators: split at the last dot,
\* unless only dots precede it
splitext(p) ==
    LET d == LastIndexOf(p, ".")
    IN  IF d >= 1 /\ \E i \in 1..(d - 1) : p[i] # "."
        THEN <<SubSeq(p, 1, d - 1), SubSeq(p, d, Len(p))>>
        ELSE <<p, Str0>>

\* split_filename_suffix without the .tar.gz case
split_filename_suffix_no_targz(filepath) == splitext(basename(filepath))

split_filename_suffix(filepath) ==
    LET filename == basename(filepath)
    IN  IF EndsWith(filename, DotTarGz)
        THEN <<SubSeq(filename, 1, Len(filename) - 7), DotTarGz>>
        ELSE splitext(filename)

(***************************************************************************)
(* match_file: dir_name is handed to re.match as a pattern, so each "."    *)
(* of dir_name matches any character; every other character of the        *)
(* alphabet used here (letters) matches itself.                            *)
(***************************************************************************)
\* does pattern character pch match character c
re_char(pch, c) == pch = "." \/ pch = c

\* the first Len(pat) characters of s match pat
re_prefix(pat, s) ==
    /\ Len(s) >= Len(pat)
    /\ \A i \in 1..Len(pat) : re_char(pat[i], s[i])

\* re.match(dir_name + '$', file_name)
re_match_exact(dir_name, file_name) ==
    re_prefix(dir_name, file_name) /\ Len(file_name) = Len(dir_name)

\* re.match(dir_name + '\\..*', file_name)
re_match_dotted(dir_name, file_name) ==
    /\ re_prefix(dir_name, file_name)
    /\ Len(file_name) > Len(dir_name)
    /\ file_name[Len(dir_name) + 1] = "."

matched_filenames(dir_name, files) ==
    {f \in files : re_match_exact(dir_name, f) \/ re_match_dotted(dir_name, f)}

\* match_file that only accepts the exact name
match_file_exact_only(dir_name, files) ==
    LET m == {f \in files : re_match_exact(dir_name, f)}
    IN  IF m = {} THEN [err |-> FALSE, name |-> Str0]
        ELSE IF Cardinality(m) = 1
             THEN [err |-> FALSE, name |-> CHOOSE f \in m : TRUE]
             ELSE [err |-> TRUE, name |-> Str0]

\* match_file that never finds anything
match_file_never(dir_name, files) == [err |-> FALSE, name |-> Str0]

\* result of match_file on a directory listing: the matched name, '' for
\* none, or the RuntimeError
match_file(dir_name, files) ==
    LET m == matched_filenames(dir_name, files)
    IN  IF m = {} THEN [err |-> FALSE, name |-> Str0]
        ELSE IF Cardinality(m) = 1
             THEN [err |-> FALSE, name |-> CHOOSE f \in m : TRUE]
             ELSE [err |-> TRUE, name |-> Str0]

(***************************************************************************)
(* File system: a node is a file, a directory with named children, or      *)
(* absent.  `data` of a file says how much of its content was written.     *)
(***************************************************************************)
NoChildren == <<>>
File(d) == [kind |-> "file", data |-> d, ch |-> NoChildren]
Dir(c) == [kind |-> "dir", data |-> "", ch |-> c]
Absent == [kind |-> "none", data |-> "", ch |-> NoChildren]
EmptyDir == Dir(NoChildren)

\* f extended or overwritten at key k
Ext(f, k, v) == [x \in (DOMAIN f) \cup {k} |-> IF x = k THEN v ELSE f[x]]
\* f without key k
Drop(f, k) == [x \in (DOMAIN f) \ {k} |-> f[x]]

RECURSIVE Get(_, _)
\* the node at path p under t
Get(t, p) ==
    IF p = <<>> THEN t
    ELSE IF t.kind = "dir" /\ Head(p) \in DOMAIN t.ch
         THEN Get(t.ch[Head(p)], Tail(p))
         ELSE Absent

RECURSIVE Put(_, _, _)
\* t with node n written at path p, missing parents created as directories
Put(t, p, n) ==
    IF p = <<>> THEN n
    ELSE LET d == IF t.kind = "dir" THEN t ELSE EmptyDir
         IN  Dir(Ext(d.ch, Head(p),
                     Put(IF Head(p) \in DOMAIN d.ch THEN d.ch[Head(p)] ELSE Absent,
                         Tail(p), n)))

RECURSIVE Remove(_, _)
\* t without the node at path p
Remove(t, p) ==
    IF Len(p) = 1 THEN [t EXCEPT !.ch = Drop(t.ch, Head(p))]
    ELSE IF Head(p) \in DOMAIN t.ch
         THEN [t EXCEPT !.ch[Head(p)] = Remove(@, Tail(p))]
         ELSE t

\* Path.exists / os.path.isdir / os.path.isfile / os.listdir
exists(t, p) == Get(t, p).kind # "none"
isdir(t, p) == Get(t, p).kind = "dir"
isfile(t, p) == Get(t, p).kind = "file"
listdir(t, p) == IF isdir(t, p) THEN DOMAIN Get(t, p).ch ELSE {}

\* Path.mkdir(parents=True, exist_ok=True)
mkdir_p(t, p) == IF exists(t, p) THEN t ELSE Put(t, p, EmptyDir)

\* cache_dir / name : joining the empty name gives the directory itself
join(dir, name) == IF name = Str0 THEN dir ELSE Append(dir, name)

\* get_filepath that never steps into a directory
get_filepath_no_unwrap(t, p) ==
    IF exists(t, p)
    THEN [ok |-> TRUE, val |-> p, err |-> ""]
    ELSE [ok |-> FALSE, val |-> <<>>, err |-> "FileNotFoundError"]

\* get_filepath: the outcome for path p in tree t
get_filepath(t, p) ==
    IF isdir(t, p)
    THEN LET files == listdir(t, p)
         IN  IF Cardinality(files) = 1
             THEN [ok |-> TRUE, val |-> Append(p, CHOOSE f \in files : TRUE), err |-> ""]
             ELSE [ok |-> TRUE, val |-> p, err |-> ""]
    ELSE IF isfile(t, p)
         THEN [ok |-> TRUE, val |-> p, err |-> ""]
         ELSE [ok |-> FALSE, val |-> <<>>, err |-> "FileNotFoundError"]

\* what a copy that fails half-way leaves of node n at its destination
Partial(n) == IF n.kind = "dir" THEN EmptyDir ELSE File("part")

(***************************************************************************)
(* Inputs                                                                  *)
(***************************************************************************)
UrlHost == <<"h", "t", "t", "p", ":", "/", "/", "h", "/">>
UrlHostS == <<"h", "t", "t", "p", "s", ":", "/", "/", "h", "/">>
\* the URLs that are fetched
Urls ==
    { UrlHost \o <<"a">> \o DotZip,
      UrlHostS \o <<"a">> \o DotTarGz,
      UrlHost \o <<"a">> \o DotTxt,
      UrlHost \o <<"a", ".", "b">> \o DotZip }

\* the cache directories handed to get_from_cache: the cache root and one
\* namespace under it
Namespace == <<"n">>
CacheDirs == { <<>>, <<Namespace>> }

\* HTTP status codes of the responses
Statuses == {200, 404}

X == <<"x">>
Y == <<"y">>
W == <<"w">>
V == <<"v">>
\* children of a directory: the names in ns, every one with node n
Same(ns, n) == [c \in ns |-> n]
\* what the archives hold at top level
Archives ==
    { Same({X}, File("full")),
      Same({X, Y}, File("full")),
      Same({W}, Dir(Same({X, Y}, File("full")))),
      Same({W}, Dir(Same({V}, Dir(Same({X}, File("full")))))) }

\* a directory listing cut down to the entries in keep
Restrict(c, keep) == [x \in (DOMAIN c) \cap keep |-> c[x]]

(***************************************************************************)
(* get_from_cache                                                          *)
(***************************************************************************)
NoCall ==
    [url |-> Str0, cache_dir |-> <<>>, before |-> Absent,
     dir_name |-> Str0, suffix |-> Str0,
     cache_path |-> <<>>, is_str |-> FALSE,
     temp_filename |-> 0, status |-> 0, total |-> 0, received |-> 0,
     uncompress_temp_dir |-> <<>>, delete_temp_dir |-> <<>>,
     todo |-> {}, success |-> FALSE, exc |-> "", gets |-> 0,
     repeat |-> FALSE, prev_val |-> <<>>, content |-> NoChildren]

NoRet == [ok |-> FALSE, val |-> <<>>, err |-> "none"]

\* tempfile.mkstemp / tempfile.mkdtemp pick a name that is not in use
fresh_temp(t) == CHOOSE i \in 1..(Cardinality(DOMAIN t.ch) + 1) : i \notin DOMAIN t.ch

IsArchive(suffix) == suffix \in {DotZip, DotTarGz}

\* the call returns or raises: the outcome goes to the caller
Return(r) ==
    /\ pc' = "idle"
    /\ ret' = r
    /\ ncalls' = ncalls + 1

Raise(e) == Return([ok |-> FALSE, val |-> <<>>, err |-> e])

\* lines 243-256 and 268-272: lookup; on a miss the scratch file is made
Call(url, cache_dir) ==
    /\ pc = "idle"
    /\ ncalls < limit
    /\ LET fs1 == mkdir_p(fs, cache_dir)
           filename == url_filename(url)
           split == split_filename_suffix(filename)
           m == match_file(split[1], listdir(fs1, cache_dir))
           dir_name == IF m.name # Str0 THEN m.name ELSE split[1]
           cache_path == join(cache_dir, dir_name)
           \* history: the call before this one succeeded on the same arguments
           repeat == ncalls > 0 /\ ret.ok /\ call.url = url /\ call.cache_dir = cache_dir
           c0 == [NoCall EXCEPT !.url = url, !.cache_dir = cache_dir,
                                !.before = fs, !.dir_name = dir_name,
                                !.suffix = split[2], !.cache_path = cache_path,
                                !.repeat = repeat,
                                !.prev_val = IF repeat THEN ret.val ELSE <<>>]
       IN  /\ fs' = fs1
           /\ IF m.err
              THEN /\ call' = [c0 EXCEPT !.dir_name = split[1], !.cache_path = <<>>]
                   /\ tmp' = tmp
                   /\ Raise("RuntimeError")
              ELSE IF exists(fs1, cache_path)
              THEN /\ call' = c0
                   /\ tmp' = tmp
                   /\ Return(get_filepath(fs1, cache_path))
              ELSE LET t == fresh_temp(tmp)
                   IN  /\ call' = [c0 EXCEPT !.temp_filename = t]
                       /\ tmp' = Put(tmp, <<t>>, File("empty"))
                       /\ pc' = "get"
                       /\ UNCHANGED <<ret, ncalls>>
    /\ UNCHANGED <<mf, sp, limit>>

\* a status test that lets every response through
status_ok_any(status) == status >= 0

status_ok(status) == status = 200

\* lines 275-279 and 336-337: the GET and its status
HttpGet(status, total) ==
    /\ pc = "get"
    /\ call' = [call EXCEPT !.status = status, !.total = total, !.gets = @ + 1]
    /\ IF status_ok(status)
       THEN /\ pc' = "stream"
            /\ UNCHANGED <<ret, ncalls>>
       ELSE Raise("HTTPError")
    /\ UNCHANGED <<fs, tmp, cp, mf, sp, limit>>

\* the chunk written straight to the cache entry instead of the scratch file
StreamChunk_into_cache ==
    /\ pc = "stream"
    /\ call.received < call.total
    /\ call' = [call EXCEPT !.received = @ + 1]
    /\ fs' = Put(fs, call.cache_path,
                 File(IF call.received + 1 = call.total THEN "full" ELSE "part"))
    /\ UNCHANGED <<tmp, pc, ret, ncalls, cp, mf, sp, limit>>

\* lines 280-284: one chunk of the body is written to the scratch file
StreamChunk ==
    /\ pc = "stream"
    /\ call.received < call.total
    /\ call' = [call EXCEPT !.received = @ + 1]
    /\ tmp' = Put(tmp, <<call.temp_filename>>,
                  File(IF call.received + 1 = call.total THEN "full" ELSE "part"))
    /\ UNCHANGED <<fs, pc, ret, ncalls, cp, mf, sp, limit>>

\* line 281: the connection breaks while the body is read
StreamFail ==
    /\ pc = "stream"
    /\ call.received < call.total
    /\ call' = call
    /\ Raise("ConnectionError")
    /\ UNCHANGED <<fs, tmp, cp, mf, sp, limit>>

\* the end of the download when a file that is not an archive is installed
\* under the bare base name
FinishDownload_no_suffix ==
    /\ pc = "stream"
    /\ call.received = call.total
    /\ IF IsArchive(call.suffix)
       THEN LET d == fresh_temp(tmp)
            IN  /\ tmp' = Put(tmp, <<d>>, EmptyDir)
                /\ call' = [call EXCEPT !.uncompress_temp_dir = <<d>>,
                                        !.delete_temp_dir = <<d>>]
                /\ pc' = "extract"
       ELSE /\ tmp' = tmp
            /\ call' = [call EXCEPT
                          !.uncompress_temp_dir = <<call.temp_filename>>,
                          !.cache_path = Append(call.cache_dir,
                                                call.dir_name),
                          !.is_str = TRUE,
                          !.todo = {Str0}]
            /\ pc' = "copy"
    /\ UNCHANGED <<fs, ret, ncalls, cp, mf, sp, limit>>

\* lines 285-293 and 305-308: the body is complete; an archive gets its
\* scratch directory, anything else is installed under its own suffix
FinishDownload ==
    /\ pc = "stream"
    /\ call.received = call.total
    /\ IF IsArchive(call.suffix)
       THEN LET d == fresh_temp(tmp)
            IN  /\ tmp' = Put(tmp, <<d>>, EmptyDir)
                /\ call' = [call EXCEPT !.uncompress_temp_dir = <<d>>,
                                        !.delete_temp_dir = <<d>>]
                /\ pc' = "extract"
       ELSE /\ tmp' = tmp
            /\ call' = [call EXCEPT
                          !.uncompress_temp_dir = <<call.temp_filename>>,
                          !.cache_path = Append(call.cache_dir,
                                                call.dir_name \o call.suffix),
                          !.is_str = TRUE,
                          !.todo = {Str0}]
            /\ pc' = "copy"
    /\ UNCHANGED <<fs, ret, ncalls, cp, mf, sp, limit>>

\* the extraction when single directories are stepped into twice
Extract_collapse_twice(content) ==
    /\ pc = "extract"
    /\ LET t1 == Put(tmp, call.uncompress_temp_dir, Dir(content))
           filenames == listdir(t1, call.uncompress_temp_dir)
           only == CHOOSE f \in filenames : TRUE
           utd1 == IF Cardinality(filenames) = 1
                      /\ isdir(t1, Append(call.uncompress_temp_dir, only))
                   THEN Append(call.uncompress_temp_dir, only)
                   ELSE call.uncompress_temp_dir
           inner == listdir(t1, utd1)
           only1 == CHOOSE f \in inner : TRUE
           utd == IF utd1 # call.uncompress_temp_dir /\ Cardinality(inner) = 1
                     /\ isdir(t1, Append(utd1, only1))
                  THEN Append(utd1, only1)
                  ELSE utd1
       IN  /\ tmp' = t1
           /\ fs' = mkdir_p(fs, call.cache_path)
           /\ call' = [call EXCEPT !.uncompress_temp_dir = utd,
                                   !.todo = listdir(t1, utd),
                                   !.content = content]
    /\ pc' = "copy"
    /\ UNCHANGED <<ret, ncalls, cp, mf, sp, limit>>

\* lines 294-304: the archive is unpacked, a single top-level directory is
\* stepped into, and the destination directory is made
Extract(content) ==
    /\ pc = "extract"
    /\ LET t1 == Put(tmp, call.uncompress_temp_dir, Dir(content))
           filenames == listdir(t1, call.uncompress_temp_dir)
           only == CHOOSE f \in filenames : TRUE
           utd == IF Cardinality(filenames) = 1
                     /\ isdir(t1, Append(call.uncompress_temp_dir, only))
                  THEN Append(call.uncompress_temp_dir, only)
                  ELSE call.uncompress_temp_dir
       IN  /\ tmp' = t1
           /\ fs' = mkdir_p(fs, call.cache_path)
           /\ call' = [call EXCEPT !.uncompress_temp_dir = utd,
                                   !.todo = listdir(t1, utd),
                                   !.content = content]
    /\ pc' = "copy"
    /\ UNCHANGED <<ret, ncalls, cp, mf, sp, limit>>

\* the extraction failure when the destination directory is made before
\* the archive is unpacked
ExtractFail_mkdir_first(content, done) ==
    /\ pc = "extract"
    /\ tmp' = Put(tmp, call.uncompress_temp_dir, Dir(Restrict(content, done)))
    /\ fs' = mkdir_p(fs, call.cache_path)
    /\ call' = call
    /\ Raise(IF call.suffix = DotZip THEN "BadZipFile" ELSE "ReadError")
    /\ UNCHANGED <<cp, mf, sp, limit>>

\* lines 295/297: unzip_file / untar_gz_file raises after unpacking the
\* entries in done
ExtractFail(content, done) ==
    /\ pc = "extract"
    /\ tmp' = Put(tmp, call.uncompress_temp_dir, Dir(Restrict(content, done)))
    /\ call' = call
    /\ Raise(IF call.suffix = DotZip THEN "BadZipFile" ELSE "ReadError")
    /\ UNCHANGED <<fs, cp, mf, sp, limit>>

\* source and destination of the copy of item c (lines 312-319); the empty
\* name stands for the single file of a download that is not an archive
CopySrc(c) == join(call.uncompress_temp_dir, c)
CopyDst(c) == join(call.cache_path, c)

\* lines 313-320: one item is copied; after the last one success is set
CopyItem(c) ==
    /\ pc = "copy"
    /\ c \in call.todo
    /\ fs' = Put(fs, CopyDst(c), Get(tmp, CopySrc(c)))
    /\ call' = [call EXCEPT !.todo = @ \ {c}]
    /\ UNCHANGED <<tmp, pc, ret, ncalls, cp, mf, sp, limit>>

\* line 320: nothing is left to copy
CopyDone ==
    /\ pc = "copy"
    /\ call.todo = {}
    /\ call' = [call EXCEPT !.success = TRUE]
    /\ pc' = "finally"
    /\ UNCHANGED <<fs, tmp, ret, ncalls, cp, mf, sp, limit>>

\* lines 315/317/319 and 321-323: the copy of item c raises, leaving
\* nothing or a truncated copy at the destination
CopyFail(c, created) ==
    /\ pc = "copy"
    /\ c \in call.todo
    /\ fs' = IF created THEN Put(fs, CopyDst(c), Partial(Get(tmp, CopySrc(c)))) ELSE fs
    /\ call' = [call EXCEPT !.exc = "OSError"]
    /\ pc' = "finally"
    /\ UNCHANGED <<tmp, ret, ncalls, cp, mf, sp, limit>>

\* removing the directory that was stepped into instead of the scratch
\* directory itself
rmtree_target_inner(c) == c.uncompress_temp_dir

\* line 332: the directory that shutil.rmtree removes
rmtree_target(c) == c.delete_temp_dir

\* lines 324-335: the finally block, then the return or the re-raise
Finally ==
    /\ pc = "finally"
    /\ call' = call
    /\ IF ~call.success /\ call.is_str
       THEN \* line 326: cache_path is a str and has no exists()
            /\ UNCHANGED <<fs, tmp>>
            /\ Raise("AttributeError")
       ELSE /\ fs' = IF ~call.success /\ exists(fs, call.cache_path)
                     THEN Remove(fs, call.cache_path) ELSE fs
            /\ LET t1 == IF call.delete_temp_dir # <<>>
                         THEN Remove(tmp, rmtree_target(call)) ELSE tmp
               IN  tmp' = Remove(t1, <<call.temp_filename>>)
            /\ IF call.success
               THEN Return(get_filepath(fs', call.cache_path))
               ELSE Raise(call.exc)
    /\ UNCHANGED <<cp, mf, sp, limit>>

(***************************************************************************)
(* cached_path                                                             *)
(***************************************************************************)
Letters ==
    {"a", "b", "c", "d", "e", "f", "g", "h", "i", "j", "k", "l", "m",
     "n", "o", "p", "q", "r", "s", "t", "u", "v", "w", "x", "y", "z"}
\* the characters urlparse accepts in a scheme
SchemeChars == Letters \cup {"+", "-", "."}

\* index of the first occurrence of character c in s, 0 when there is none
IndexOf(s, c) ==
    IF \E i \in 1..Len(s) : s[i] = c
    THEN CHOOSE i \in 1..Len(s) : s[i] = c /\ \A j \in 1..(i - 1) : s[j] # c
    ELSE 0

\* urlparse(s).scheme: what precedes the first ":", when it starts with a
\* letter and holds scheme characters only; '' otherwise
url_scheme(s) ==
    LET i == IndexOf(s, ":")
    IN  IF i > 1 /\ s[1] \in Letters /\ \A j \in 1..(i - 1) : s[j] \in SchemeChars
        THEN SubSeq(s, 1, i - 1)
        ELSE Str0

RECURSIVE path_parts(_)
\* the names of a relative path, split at "/"
path_parts(s) ==
    LET i == IndexOf(s, "/")
    IN  IF s = Str0 THEN <<>>
        ELSE IF i = 0 THEN <<s>>
        ELSE IF i = 1 THEN path_parts(Tail(s))
        ELSE <<SubSeq(s, 1, i - 1)>> \o path_parts(SubSeq(s, i + 1, Len(s)))

Http == <<"h", "t", "t", "p">>
Https == <<"h", "t", "t", "p", "s">>
\* line 105
is_remote(scheme) == scheme \in {Http, Https}

\* the cache root: get_default_cache_path() or the cache_dir argument
CacheRoot == <<>>

\* a data_cache that leaves the name out
data_cache_no_name(name) == CacheRoot

\* lines 95-101: the directory that is searched
data_cache(name) == IF name # Str0 THEN Append(CacheRoot, name) ELSE CacheRoot

\* a local result that resolves the path as get_from_cache does
local_result_resolved(t, p) == get_filepath(t, p)

\* line 110: the path of the existing file or directory, as it is
local_result(t, p) == [ok |-> TRUE, val |-> p, err |-> ""]

\* the identifiers handed to cached_path besides the URLs: two bare names
\* and a URL of another scheme
BareNames == { <<"a">>, <<"a">> \o DotTxt }
OtherIds == { <<"f", "t", "p", ":", "/", "/", "h", "/", "a">> \o DotZip }
Identifiers == Urls \cup BareNames \cup OtherIds
\* the name argument: none, or the namespace
Names == { Str0, Namespace }

NoCp == [ident |-> Str0, name |-> Str0, called |-> FALSE]

\* lines 95-118
CachedPath(ident, name) ==
    LET scheme == url_scheme(ident)
        dc == data_cache(name)
        p == dc \o path_parts(ident)
        repeat == ncalls > 0 /\ ret.ok /\ call.url = ident /\ call.cache_dir = dc
    IN  /\ cp' = [ident |-> ident, name |-> name, called |-> TRUE]
        /\ IF is_remote(scheme)
           THEN Call(ident, dc)
           ELSE /\ pc = "idle"
                /\ ncalls < limit
                /\ call' = [NoCall EXCEPT !.url = ident, !.cache_dir = dc,
                                          !.before = fs,
                                          !.repeat = repeat,
                                          !.prev_val = IF repeat THEN ret.val ELSE <<>>]
                /\ IF scheme = Str0 /\ exists(fs, p)
                   THEN Return(local_result(fs, p))
                   ELSE IF scheme = Str0
                   THEN Raise("FileNotFoundError")
                   ELSE Raise("ValueError")
                /\ UNCHANGED <<fs, tmp, mf, sp, limit>>

NoSplit == [filepath |-> Str0, out |-> <<Str0, Str0>>, done |-> FALSE]

NoMatch == [dir_name |-> Str0, files |-> {}, out |-> [err |-> FALSE, name |-> Str0], done |-> FALSE]

Init ==
    /\ fs = Absent
    /\ tmp = EmptyDir
    /\ pc = "idle"
    /\ call = NoCall
    /\ ret = NoRet
    /\ ncalls = 0
    /\ limit = MaxCalls
    /\ cp = NoCp
    /\ mf = NoMatch
    /\ sp = NoSplit

Next ==
    \/ \E ident \in Identifiers, name \in Names : CachedPath(ident, name)
    \/ \E status \in Statuses, total \in 1..MaxChunks : HttpGet(status, total)
    \/ StreamChunk
    \/ StreamFail
    \/ FinishDownload
    \/ \E content \in Archives : Extract(content)
    \/ \E content \in Archives : \E done \in SUBSET DOMAIN content :
          done # DOMAIN content /\ ExtractFail(content, done)
    \/ \E c \in call.todo : CopyItem(c)
    \/ CopyDone
    \/ \E c \in call.todo, created \in BOOLEAN : CopyFail(c, created)
    \/ Finally

Spec == Init /\ [][Next]_vars

\* the caller only fetches URLs, into the cache root: more calls in a row
InitFetch ==
    /\ fs = Absent
    /\ tmp = EmptyDir
    /\ pc = "idle"
    /\ call = NoCall
    /\ ret = NoRet
    /\ ncalls = 0
    /\ limit = MaxFetches
    /\ cp = NoCp
    /\ mf = NoMatch
    /\ sp = NoSplit

NextFetch ==
    \/ \E url \in Urls : CachedPath(url, Str0)
    \/ \E status \in Statuses, total \in 1..MaxChunks : HttpGet(status, total)
    \/ StreamChunk
    \/ StreamFail
    \/ FinishDownload
    \/ \E content \in Archives : Extract(content)
    \/ \E content \in Archives : \E done \in SUBSET DOMAIN content :
          done # DOMAIN content /\ ExtractFail(content, done)
    \/ \E c \in call.todo : CopyItem(c)
    \/ CopyDone
    \/ \E c \in call.todo, created \in BOOLEAN : CopyFail(c, created)
    \/ Finally

SpecFetch == InitFetch /\ [][NextFetch]_vars

(***************************************************************************)
(* match_file on its own: the directory listing and the name are inputs    *)
(***************************************************************************)
Foo == <<"f", "o", "o">>
\* the names looked for
BaseNames == { Foo, Foo \o <<"d">>, <<"a", ".", "b">> }
\* the names a listing is made of
EntryNames ==
    { Foo, Foo \o DotTxt, Foo \o DotZip, Foo \o DotTarGz,
      <<"a", "x", "b">>, <<"a", ".", "b">> }

InitMatch ==
    /\ fs = Absent
    /\ tmp = EmptyDir
    /\ pc = "idle"
    /\ call = NoCall
    /\ ret = NoRet
    /\ ncalls = 0
    /\ limit = MaxCalls
    /\ cp = NoCp
    /\ sp = NoSplit
    /\ \E d \in BaseNames, files \in SUBSET EntryNames :
          /\ Cardinality(files) <= MaxEntries
          /\ mf = [NoMatch EXCEPT !.dir_name = d, !.files = files]

\* lines 365-375
MatchFile ==
    /\ ~mf.done
    /\ mf' = [mf EXCEPT !.out = match_file(mf.dir_name, mf.files), !.done = TRUE]
    /\ UNCHANGED <<fs, tmp, pc, call, ret, ncalls, cp, sp, limit>>

NextMatch == MatchFile

SpecMatch == InitMatch /\ [][NextMatch]_vars

(***************************************************************************)
(* split_filename_suffix on its own: the file name is the input            *)
(***************************************************************************)
\* longest generated file name
MaxNameLen == 5
SplitAlphabet == {"a", "."}
ArchiveTarGz == <<"a", "r", "c", "h", "i", "v", "e">> \o DotTarGz
DataJson == <<"d", "a", "t", "a", ".", "j", "s", "o", "n">>
\* the file names that are split
SplitInputs ==
    UNION {[1..n -> SplitAlphabet] : n \in 0..MaxNameLen}
        \cup {ArchiveTarGz, DataJson, DotTarGz, <<"a", ".", "b">> \o DotTarGz,
              <<"a">> \o DotTxt, <<"a", ".", "b">> \o DotZip}

InitSplit ==
    /\ fs = Absent
    /\ tmp = EmptyDir
    /\ pc = "idle"
    /\ call = NoCall
    /\ ret = NoRet
    /\ ncalls = 0
    /\ limit = MaxCalls
    /\ cp = NoCp
    /\ mf = NoMatch
    /\ \E f \in SplitInputs : sp = [NoSplit EXCEPT !.filepath = f]

\* lines 230-233
SplitFilenameSuffix ==
    /\ ~sp.done
    /\ sp' = [sp EXCEPT !.out = split_filename_suffix(sp.filepath), !.done = TRUE]
    /\ UNCHANGED <<fs, tmp, pc, call, ret, ncalls, cp, mf, limit>>

NextSplit == SplitFilenameSuffix

SpecSplit == InitSplit /\ [][NextSplit]_vars

(***************************************************************************)
(* Properties                                                              *)
(***************************************************************************)
\* a call has come back to its caller; `call` holds what it left behind
Returned == pc = "idle" /\ ncalls > 0
\* the call went past the lookup and made a scratch file
Missed == call.temp_filename # 0
ScratchFileExists == exists(tmp, <<call.temp_filename>>)
ScratchDirExists == call.delete_temp_dir # <<>> /\ exists(tmp, call.delete_temp_dir)
\* the call ended because unzip_file / untar_gz_file raised
ExtractFailed == Returned /\ ret.err \in {"BadZipFile", "ReadError"}
\* the call ended after the copy into the cache raised
InstallFailed == Returned /\ call.exc = "OSError"
\* the call ended in the download: bad status or broken stream
DownloadFailed == Returned /\ ret.err \in {"HTTPError", "ConnectionError"}

C2_NoDuplicateMatch ==
    DOMAIN tmp.ch = {} =>
        /\ ret.err # "RuntimeError"
        /\ ncalls > 0 =>
             Cardinality(matched_filenames(
                 split_filename_suffix(url_filename(call.url))[1],
                 listdir(fs, call.cache_dir))) <= 1

\* C3: after a fetch that ended with an extraction failure or an install
\* failure neither its scratch file nor its scratch directory exists.
C3_ScratchReleasedOnFailure ==
    (ExtractFailed \/ InstallFailed) => ~ScratchFileExists /\ ~ScratchDirExists

\* C4: after a fetch whose install step failed the destination entry does
\* not exist, for archives and for other downloads.
C4_NoHalfWrittenEntry ==
    InstallFailed => ~exists(fs, call.cache_path)

\* C5: when the install step raises, the error that reaches the caller is
\* that error.
C5_OriginalErrorReraised ==
    InstallFailed => ~ret.ok /\ ret.err = call.exc

\* C6: after a failed extraction the destination entry of the URL's base
\* name does not exist under the cache directory.
C6_NoEntryAfterFailedExtraction ==
    ExtractFailed => ~exists(fs, join(call.cache_dir, call.dir_name))

\* an extraction failed after part of the archive was unpacked
C6_Witness ==
    /\ ExtractFailed
    /\ listdir(tmp, call.delete_temp_dir) # {}

\* C7: a response whose status is not 200 ends the call with the download
\* error and the cache directory holds what it held before the call.
C7_Non200InstallsNothing ==
    (pc = "idle" /\ call.status \notin {0, 200}) =>
        /\ ~ret.ok /\ ret.err = "HTTPError"
        /\ fs = mkdir_p(call.before, call.cache_dir)

\* a call ended on a 404 in a cache directory that already had an entry
C7_Witness ==
    /\ Returned /\ call.status = 404 /\ ret.err = "HTTPError"
    /\ listdir(fs, call.cache_dir) # {}

\* C8: after a fetch that failed while downloading (status not 200, or an
\* error while streaming) its scratch file does not exist.
C8_ScratchReleasedOnDownloadFailure ==
    DownloadFailed => ~ScratchFileExists

\* C9: after a successful fetch of an archive neither the scratch
\* directory nor the scratch file exists, and the destination does.
C9_ScratchReleasedOnSuccess ==
    (Returned /\ ret.ok /\ Missed /\ IsArchive(call.suffix)) =>
        /\ ~exists(tmp, <<call.temp_filename>>)
        /\ ~exists(tmp, call.delete_temp_dir)
        /\ isdir(fs, call.cache_path)

\* an archive with a single top-level directory was fetched and installed
C9_Witness ==
    /\ Returned /\ ret.ok /\ Missed /\ IsArchive(call.suffix)
    /\ Len(call.uncompress_temp_dir) = 2

\* the rule of the claim: the entry is the name, or the name, a dot and
\* any suffix
LiteralMatches(dir_name, files) ==
    {f \in files : f = dir_name
                   \/ (Len(f) > Len(dir_name)
                       /\ SubSeq(f, 1, Len(dir_name) + 1) = dir_name \o <<".">>)}

\* C10: match_file counts exactly the entries that equal the name or the
\* name followed by a dot and a suffix: no match for none, the entry for
\* one, the error for several.
C10_MatchFileLiteral ==
    mf.done =>
        LET m == LiteralMatches(mf.dir_name, mf.files)
        IN  /\ mf.out.err = (Cardinality(m) > 1)
            /\ Cardinality(m) = 0 => mf.out.name = Str0
            /\ Cardinality(m) = 1 => mf.out.name \in m

\* the last call was cached_path on a bare name whose path existed
ExpectedDir == IF cp.name = Str0 THEN <<>> ELSE <<cp.name>>
ExpectedPath == ExpectedDir \o path_parts(cp.ident)
LocalHit ==
    /\ Returned /\ cp.called
    /\ url_scheme(cp.ident) = Str0
    /\ exists(call.before, ExpectedPath)

\* C11 as stated: cached_path on a bare name whose joined path exists
\* returns, without network access, the child's path for a directory with
\* exactly one child, the directory for several children, the file for a
\* file.
C11_LocalResolved ==
    LocalHit =>
        /\ ret.ok /\ call.gets = 0
        /\ ret.val = IF isdir(fs, ExpectedPath)
                        /\ Cardinality(listdir(fs, ExpectedPath)) = 1
                     THEN Append(ExpectedPath,
                                 CHOOSE f \in listdir(fs, ExpectedPath) : TRUE)
                     ELSE ExpectedPath

\* C11 amended: cached_path on a bare name whose joined path exists returns
\* that joined path as it is, file or directory, without network access
\* and without touching the cache.
C11_LocalReturnedAsIs ==
    LocalHit =>
        /\ ret.ok /\ call.gets = 0 /\ ~Missed
        /\ ret.val = ExpectedPath
        /\ fs = call.before

\* the bare name is a directory with exactly one child
C11_Witness ==
    /\ LocalHit
    /\ isdir(fs, ExpectedPath)
    /\ Cardinality(listdir(fs, ExpectedPath)) = 1

AddedEntries == listdir(fs, call.cache_dir) \ listdir(call.before, call.cache_dir)

\* C13: after a successful download the installed entry is named by the
\* base name for a .zip or .tar.gz URL and by the last path segment of the
\* URL (base name and suffix) otherwise, directly under the cache directory.
C13_EntryName ==
    (Returned /\ ret.ok /\ Missed) =>
        LET filename == url_filename(call.url)
            split == split_filename_suffix(filename)
        IN  /\ AddedEntries = {IF split[2] \in {DotZip, DotTarGz}
                               THEN split[1] ELSE filename}
            /\ split[2] \in {DotZip, DotTarGz} =>
                 isdir(fs, Append(call.cache_dir, split[1]))
            /\ split[2] \notin {DotZip, DotTarGz} =>
                 isfile(fs, Append(call.cache_dir, filename))

\* a file that is not an archive was downloaded into the namespace
C13_Witness ==
    /\ Returned /\ ret.ok /\ Missed
    /\ call.suffix = DotTxt
    /\ call.cache_dir = <<Namespace>>

\* the last call went to get_from_cache
Fetched == cp.called /\ url_scheme(cp.ident) \in {Http, Https}
\* what the cache held at the call, its cache directory made
BeforeFs == mkdir_p(call.before, call.cache_dir)

\* C14: an archive with exactly one top-level entry that is a directory is
\* installed as the children of that directory, stepping in once only;
\* every other archive is installed as its top-level entries.
C14_SingleDirCollapse ==
    (Returned /\ ret.ok /\ Missed /\ IsArchive(call.suffix)) =>
        LET top == DOMAIN call.content
            only == CHOOSE f \in top : TRUE
        IN  Get(fs, call.cache_path).ch =
                IF Cardinality(top) = 1 /\ call.content[only].kind = "dir"
                THEN call.content[only].ch
                ELSE call.content

\* an archive with two nested single directories was installed: the inner
\* one is still a directory of the entry
C14_Witness ==
    /\ Returned /\ ret.ok /\ Missed /\ IsArchive(call.suffix)
    /\ DOMAIN call.content = {W}
    /\ isdir(fs, Append(call.cache_path, V))

\* C15: get_from_cache returns, on a hit and after a download alike, the
\* single entry inside the cache entry when the cache entry is a directory
\* with exactly one entry, and the cache entry itself otherwise.
C15_ReturnedPath ==
    (Returned /\ Fetched /\ ret.ok) =>
        /\ exists(fs, call.cache_path)
        /\ ret.val = IF isdir(fs, call.cache_path)
                        /\ Cardinality(listdir(fs, call.cache_path)) = 1
                     THEN Append(call.cache_path,
                                 CHOOSE f \in listdir(fs, call.cache_path) : TRUE)
                     ELSE call.cache_path

\* a hit on a directory entry with a single entry inside
C15_Witness ==
    /\ Returned /\ Fetched /\ ret.ok /\ ~Missed
    /\ Len(ret.val) = Len(call.cache_path) + 1

\* C16: split_filename_suffix gives the name without its last 7 characters
\* and '.tar.gz' for a name that ends with '.tar.gz', otherwise the name
\* split at its last extension; base followed by suffix is the name.
C16_SplitFilenameSuffix ==
    sp.done =>
        LET name == sp.filepath
            base == sp.out[1]
            suffix == sp.out[2]
            HasExt == \E i \in 2..Len(name) :
                         name[i] = "." /\ \E j \in 1..(i - 1) : name[j] # "."
        IN  /\ base \o suffix = name
            /\ EndsWith(name, DotTarGz) =>
                 /\ suffix = DotTarGz
                 /\ base = SubSeq(name, 1, Len(name) - 7)
            /\ (~EndsWith(name, DotTarGz) /\ HasExt) =>
                 /\ Len(suffix) >= 1 /\ suffix[1] = "."
                 /\ \A i \in 2..Len(suffix) : suffix[i] # "."
            /\ (~EndsWith(name, DotTarGz) /\ ~HasExt) => suffix = Str0
            /\ name = ArchiveTarGz => base = <<"a", "r", "c", "h", "i", "v", "e">>
            /\ name = DataJson =>
                 base = <<"d", "a", "t", "a">> /\ suffix = <<".", "j", "s", "o", "n">>

\* archive.tar.gz has been split
C16_Witness == sp.done /\ sp.filepath = ArchiveTarGz

\* C17: a GET follows a lookup that found no entry, and nothing appears
\* under the cache directory before the body is complete with status 200
\* and, for an archive, unpacked; a download that breaks leaves no entry.
C17_StepOrder ==
    /\ call.gets > 0 =>
         /\ Missed
         /\ ~exists(call.before, call.cache_dir \o
                        <<split_filename_suffix(url_filename(call.url))[1]>>)
    /\ pc \in {"get", "stream", "extract"} => fs = BeforeFs
    /\ pc = "stream" => call.gets = 1 /\ call.status = 200
    /\ pc = "extract" => call.received = call.total
    /\ (Missed /\ fs # BeforeFs) =>
         /\ call.status = 200
         /\ call.total > 0 /\ call.received = call.total
         /\ IsArchive(call.suffix) => call.content # NoChildren
    /\ DownloadFailed => fs = BeforeFs

\* the connection broke after part of the body was written
C17_Witness ==
    /\ Returned /\ ret.err = "ConnectionError"
    /\ call.received > 0

OtherEntriesSame ==
    IF call.cache_dir = <<>>
    THEN Get(fs, <<Namespace>>) = Get(call.before, <<Namespace>>)
    ELSE \A e \in listdir(call.before, <<>>) \cup listdir(fs, <<>>) :
            e # Namespace => Get(fs, <<e>>) = Get(call.before, <<e>>)

\* C19: a get_from_cache call changes nothing but its own destination: a
\* hit and a failed fetch leave the entries of the cache directory as they
\* were, a successful download adds exactly one, and what lies under other
\* namespaces stays as it was.
C19_Frame ==
    (Returned /\ Fetched) =>
        /\ (~Missed \/ ~ret.ok) =>
             listdir(fs, call.cache_dir) = listdir(call.before, call.cache_dir)
        /\ (Missed /\ ret.ok) =>
             /\ Cardinality(AddedEntries) = 1
             /\ \A e \in listdir(call.before, call.cache_dir) :
                   Get(fs, Append(call.cache_dir, e))
                       = Get(call.before, Append(call.cache_dir, e))
        /\ OtherEntriesSame

====
